---- MODULE Spec2Model ----
(***************************************************************************)
(* BooleanColumn (common/datavalues/src/columns/boolean/mod.rs): an        *)
(* immutable column of booleans backed by a packed, shared Bitmap.         *)
(*                                                                         *)
(* A byte buffer is modelled as the sequence of its bits, least            *)
(* significant bit of byte 0 first, so its length is a multiple of 8 and   *)
(* bit k of the buffer is bit (k % 8) of byte (k / 8).  A little-endian    *)
(* u64 loaded from 8 bytes is then the 64 consecutive bits, bit n of the   *)
(* word being the n-th of them.  Buffers live in the heap `bufs` and are   *)
(* named by their index, the way Bitmap names its Arc<Bytes>.              *)
(***************************************************************************)
EXTENDS Integers, Sequences, FiniteSets, TLC

VARIABLES
    bufs,    \* heap of frozen byte buffers (Arc<Bytes>), never freed here
    cols,    \* the BooleanColumn handles produced so far
    budget,  \* calls the caller still makes
    last     \* the last call: operation, arguments, outcome and results

vars == <<bufs, cols, budget, last>>

----------------------------------------------------------------------------
(* Bounds of the model.                                                    *)

MaxLen == 3        \* rows of a short input column
MaxParts == 2      \* largest scattered_size
MaxRun == 2        \* largest run length of a replicate offset
UsizeBits == 8     \* width of usize in the model
MaxCols == 4       \* columns alive in a sequence of calls

(* Program constants.                                                      *)
ChunkBits == 64    \* BitChunksExact::<u64>

UsizeMod == 2 ^ UsizeBits
UsizeMax == UsizeMod - 1

Min(a, b) == IF a <= b THEN a ELSE b

----------------------------------------------------------------------------
(* Bit buffers: the primitives of the arrow bitmap module.                 *)

ZeroByte == [i \in 1..8 |-> FALSE]

(* count_zeros(slice, offset, len): the unset bits of a bit range.         *)
count_zeros(bits, offset, length) ==
    Cardinality({i \in 1..length : ~bits[offset + i]})

(* MutableBitmap { buffer: Vec<u8>, length: usize }                        *)
MutableBitmap_new == [buffer |-> <<>>, length |-> 0]

(* push: a new zero byte when the last one is full, then the bit is set.   *)
MutableBitmap_push(mb, value) ==
    LET buffer == IF mb.length % 8 = 0
                  THEN mb.buffer \o ZeroByte ELSE mb.buffer
    IN [buffer |-> [buffer EXCEPT ![mb.length + 1] = value],
        length |-> mb.length + 1]

(* The bulk appends grow the buffer to the bytes the new length needs and  *)
(* write the new bits after the old ones.                                  *)
extend_from_iter(mb, items) ==
    LET length == mb.length + Len(items)
        nbytes == (length + 7) \div 8
    IN [buffer |-> SubSeq(mb.buffer, 1, mb.length) \o items
                   \o [i \in 1..(8 * nbytes - length) |-> FALSE],
        length |-> length]

extend_constant(mb, additional, value) ==
    extend_from_iter(mb, [i \in 1..additional |-> value])

MutableBitmap_from_iter(items) == extend_from_iter(MutableBitmap_new, items)

(* Bitmap { bytes: Arc<Bytes>, offset, length, null_count }.  Freezing a   *)
(* MutableBitmap moves its Vec<u8> into a new shared buffer.               *)
Bitmap_from(B, mb) ==
    [bufs |-> Append(B, mb.buffer),
     values |-> [bytes |-> Len(B) + 1, offset |-> 0, length |-> mb.length,
                 null_count |-> count_zeros(mb.buffer, 0, mb.length)]]

Bitmap_len(bm) == bm.length

(* get_bit(&self.bytes, self.offset + i): is_set(data[i / 8], i % 8); the  *)
(* only bounds check is the byte index into the buffer.                    *)
get_bit(B, bm, i) ==
    LET k == bm.offset + i
    IN IF k \div 8 < Len(B[bm.bytes]) \div 8
       THEN [outcome |-> "ok", value |-> B[bm.bytes][k + 1]]
       ELSE [outcome |-> "panic", value |-> FALSE]

(* IntoIterator for &Bitmap: BitmapIter::new(&bytes, offset, length).      *)
BitmapIter(bits, offset, length) == SubSeq(bits, offset + 1, offset + length)

Bitmap_iter(B, bm) == BitmapIter(B[bm.bytes], bm.offset, bm.length)

(* A view is sound when its bits lie inside its buffer.                    *)
InBuffer(B, bm) == bm.offset + bm.length <= Len(B[bm.bytes])

(* slice_unchecked(mut self, offset, length): offset += offset; length =   *)
(* length; null_count recounted for the sub-range.  usize arithmetic wraps *)
(* here, because the caller's check is all that protects it.               *)
slice_unchecked(B, bm, offset, length) ==
    LET off == (bm.offset + offset) % UsizeMod
    IN [bytes |-> bm.bytes, offset |-> off, length |-> length,
        null_count |-> IF off + length <= Len(B[bm.bytes])
                       THEN count_zeros(B[bm.bytes], off, length) ELSE 0]

(* as_slice(): the bytes that hold the view, the bit offset inside the     *)
(* first of them, and the length.                                          *)
as_slice(B, bm) ==
    LET start == bm.offset \div 8
        nbytes == ((bm.offset % 8) + bm.length + 7) \div 8
    IN <<SubSeq(B[bm.bytes], start * 8 + 1, (start + nbytes) * 8),
         bm.offset % 8, bm.length>>

----------------------------------------------------------------------------
(* BooleanColumn { values: Bitmap }                                        *)

(* What a call gives back: how it ended ("ok", "panic", or "ub" when it ran *)
(* into undefined behaviour), the heap after it, the columns it returned,  *)
(* the scalar it returned, and the path it took.                           *)
Ret(outcome, B, out, value, path) ==
    [outcome |-> outcome, bufs |-> B, out |-> out, value |-> value,
     path |-> path]

Panic(B) == Ret("panic", B, <<>>, FALSE, "-")

len(c) == Bitmap_len(c.values)

(* from_slice: MutableBitmap::from_iter(data), frozen.                     *)
from_slice(B, data) ==
    LET f == Bitmap_from(B, MutableBitmap_from_iter(data))
    IN Ret("ok", f.bufs, <<[values |-> f.values]>>, FALSE, "-")

(* arc(): Arc::new(self.clone()); the clone shares the Bitmap's buffer.    *)
arc(B, c) == Ret("ok", B, <<[values |-> c.values]>>, FALSE, "-")

(* slice taken from the first row of the bytes, the offset of the view     *)
(* it is called on left out.                                               *)
slice_of_bytes(B, bld, c, offset, length) ==
    LET sum == offset + length
    IN IF sum > UsizeMax /\ bld = "debug" THEN Panic(B)
       ELSE IF sum % UsizeMod <= len(c)
       THEN LET v == slice_unchecked(B, [c.values EXCEPT !.offset = 0],
                                     offset, length)
            IN Ret(IF offset + length <= len(c) THEN "ok" ELSE "ub",
                   B, <<[values |-> v]>>, FALSE, "-")
       ELSE Panic(B)

(* slice: assert!(offset + length <= self.len()), then slice_unchecked.    *)
(* offset + length is usize arithmetic: an overflow panics in a build with *)
(* overflow checks and wraps in one without.                               *)
slice(B, bld, c, offset, length) ==
    LET sum == offset + length
    IN IF sum > UsizeMax /\ bld = "debug" THEN Panic(B)
       ELSE IF sum % UsizeMod <= len(c)
       THEN LET v == slice_unchecked(B, c.values, offset, length)
            IN Ret(IF offset + length <= len(c) THEN "ok" ELSE "ub",
                   B, <<[values |-> v]>>, FALSE, "-")
       ELSE Panic(B)

(* get: DataValue::Boolean(self.values.get_bit(index))                     *)
get(B, c, index) ==
    LET g == get_bit(B, c.values, index)
    IN Ret(g.outcome, B, <<>>, g.value, "-")

----------------------------------------------------------------------------
(* filter (mod.rs 111-148)                                                 *)

(* The rows of vals at the set positions of keep.                          *)
Select_rows(vals, keep) ==
    LET idx == {i \in 1..Min(Len(vals), Len(keep)) : keep[i]}
    IN [k \in 1..Cardinality(idx) |->
          vals[CHOOSE i \in idx : Cardinality({j \in idx : j <= i}) = k]]

(* BitChunksExact::<u64>::new(slice, length): the whole words of the first *)
(* `length` bits of `slice`, and the bits after them.  The bit offset that *)
(* as_slice reports is not an argument of it.                              *)
BitChunksExact_new(bits, length) ==
    LET n == length \div ChunkBits
    IN [chunks |-> [k \in 1..n |->
                      SubSeq(bits, (k - 1) * ChunkBits + 1, k * ChunkBits)],
        remainder |-> BitmapIter(bits, n * ChunkBits, length - n * ChunkBits)]

(* A u64 is its 64 bits, bit n at position n + 1.                          *)
trailing_zeros(word) ==
    CHOOSE n \in 0..(ChunkBits - 1) :
        word[n + 1] /\ \A k \in 0..(n - 1) : ~word[k + 1]

(* while mask != 0 { n = trailing_zeros; push(chunk & (1 << n) != 0);      *)
(*                   mask &= mask - 1 }                                    *)
RECURSIVE filter_chunk(_, _, _)
filter_chunk(bitmap, chunk, mask) ==
    IF \A n \in 0..(ChunkBits - 1) : ~mask[n + 1] THEN bitmap
    ELSE LET n == trailing_zeros(mask)
             pushed == MutableBitmap_push(bitmap, chunk[n + 1])
         IN CASE pushed.length > 0 ->
                 filter_chunk(pushed, chunk, [mask EXCEPT ![n + 1] = FALSE])

RECURSIVE filter_chunks(_, _, _, _)
filter_chunks(bitmap, chunks, mask_chunks, k) ==
    IF k > Min(Len(chunks), Len(mask_chunks)) THEN bitmap
    ELSE LET pushed == filter_chunk(bitmap, chunks[k], mask_chunks[k])
         IN CASE pushed.length >= 0 ->
                 filter_chunks(pushed, chunks, mask_chunks, k + 1)

RECURSIVE filter_remainder(_, _, _, _)
filter_remainder(bitmap, rem, mask_rem, i) ==
    IF i > Min(Len(rem), Len(mask_rem)) THEN bitmap
    ELSE LET pushed == IF mask_rem[i] THEN MutableBitmap_push(bitmap, rem[i])
                       ELSE bitmap
         IN CASE pushed.length >= 0 ->
                 filter_remainder(pushed, rem, mask_rem, i + 1)

(* filter with the kept rows written over the start of the column's own   *)
(* buffer instead of a new one.                                            *)
filter_in_place(B, c, m) ==
    LET kept == Select_rows(Bitmap_iter(B, c.values), Bitmap_iter(B, m.values))
        old == B[c.values.bytes]
    IN Ret("ok",
           [B EXCEPT ![c.values.bytes] =
               [i \in 1..Len(old) |-> IF i <= Len(kept) THEN kept[i] ELSE old[i]]],
           <<[values |-> [bytes |-> c.values.bytes, offset |-> 0,
                          length |-> Len(kept),
                          null_count |-> Len(kept)
                              - Cardinality({i \in 1..Len(kept) : kept[i]})]]>>,
           FALSE, "kernel")

filter(B, c, m) ==
    LET selected == Bitmap_len(m.values) - m.values.null_count
    IN IF selected = len(c)
       THEN Ret("ok", B, <<[values |-> c.values]>>, FALSE, "fast")
       ELSE LET vs == as_slice(B, c.values)
                ms == as_slice(B, m.values)
                chunks == BitChunksExact_new(vs[1], vs[3])
                mask_chunks == BitChunksExact_new(ms[1], ms[3])
                words == filter_chunks(MutableBitmap_new, chunks.chunks,
                                       mask_chunks.chunks, 1)
                bitmap == filter_remainder(words, chunks.remainder,
                                           mask_chunks.remainder, 1)
                f == Bitmap_from(B, bitmap)
            IN Ret("ok", f.bufs, <<[values |-> f.values]>>, FALSE, "kernel")

----------------------------------------------------------------------------
(* MutableBooleanColumn { values: MutableBitmap }, the builder.            *)

with_capacity(capacity) == [values |-> MutableBitmap_new]

append_value(b, value) == [values |-> MutableBitmap_push(b.values, value)]

(* to_column freezes the builder's bits into a column of its own buffer.   *)
to_column(B, b) ==
    LET f == Bitmap_from(B, b.values)
    IN Ret("ok", f.bufs, <<[values |-> f.values]>>, FALSE, "-")

RECURSIVE to_columns(_, _, _, _)
to_columns(B, builders, k, out) ==
    IF k > Len(builders) THEN Ret("ok", B, out, FALSE, "-")
    ELSE LET r == to_column(B, builders[k])
         IN to_columns(r.bufs, builders, k + 1, out \o r.out)

----------------------------------------------------------------------------
(* scatter (mod.rs 150-164)                                                *)

(* indices.iter().zip(self.values()).for_each(builders[*index].append)     *)
(* stops at the shorter of the two; builders[*index] panics out of range.  *)
RECURSIVE scatter_each(_, _, _, _)
scatter_each(builders, indices, values, i) ==
    IF i > Min(Len(indices), Len(values))
    THEN [outcome |-> "ok", builders |-> builders]
    ELSE IF indices[i] >= Len(builders)
    THEN [outcome |-> "panic", builders |-> builders]
    ELSE scatter_each([builders EXCEPT ![indices[i] + 1] =
                           append_value(@, values[i])],
                      indices, values, i + 1)

(* scatter reading the rows from the first bit of the column's bytes, the  *)
(* bit offset of the view left out.                                        *)
scatter_without_offset(B, c, indices, scattered_size) ==
    LET builders == [k \in 1..scattered_size |-> with_capacity(len(c))]
        rows == BitmapIter(as_slice(B, c.values)[1], 0, len(c))
        done == scatter_each(builders, indices, rows, 1)
    IN IF done.outcome = "panic" THEN Panic(B)
       ELSE to_columns(B, done.builders, 1, <<>>)

scatter(B, c, indices, scattered_size) ==
    LET builders == [k \in 1..scattered_size |-> with_capacity(len(c))]
        done == scatter_each(builders, indices, Bitmap_iter(B, c.values), 1)
    IN IF done.outcome = "panic" THEN Panic(B)
       ELSE to_columns(B, done.builders, 1, <<>>)

----------------------------------------------------------------------------
(* replicate (mod.rs 166-190)                                              *)

(* (0..self.len()).for_each: offsets[i] panics past the end of offsets;    *)
(* offset - previous_offset below zero panics (overflow check) or asks     *)
(* extend_constant for more bits than can be allocated.                    *)
RECURSIVE replicate_each(_, _, _, _, _, _)
replicate_each(B, c, offsets, builder, previous_offset, i) ==
    IF i >= len(c) THEN [outcome |-> "ok", builder |-> builder]
    ELSE IF i >= Len(offsets) \/ offsets[i + 1] < previous_offset
    THEN [outcome |-> "panic", builder |-> builder]
    ELSE LET offset == offsets[i + 1]
             data == get_bit(B, c.values, i).value
             extended == extend_constant(builder.values,
                                         offset - previous_offset, data)
         IN CASE extended.length = offset ->
                 replicate_each(B, c, offsets, [values |-> extended],
                                offset, i + 1)

RECURSIVE Flatten(_, _)
Flatten(seqs, i) == IF i = 0 THEN <<>> ELSE Flatten(seqs, i - 1) \o seqs[i]

(* replicate with every run as long as its offset: previous_offset is      *)
(* never advanced.                                                         *)
replicate_without_previous(B, bld, c, offsets) ==
    IF bld = "debug" /\ Len(offsets) # len(c) THEN Panic(B)
    ELSE IF offsets = <<>> THEN slice(B, bld, c, 0, 0)
    ELSE IF Len(offsets) < len(c) THEN Panic(B)
    ELSE LET runs == [i \in 1..len(c) |->
                        [j \in 1..offsets[i] |-> get_bit(B, c.values, i - 1).value]]
             all == [i \in 0..len(c) |->
                        IF i = 0 THEN <<>> ELSE runs[i]]
         IN to_column(B, [values |-> MutableBitmap_from_iter(
                              Flatten(all, len(c)))])

replicate(B, bld, c, offsets) ==
    IF bld = "debug" /\ Len(offsets) # len(c) THEN Panic(B)
    ELSE IF offsets = <<>> THEN slice(B, bld, c, 0, 0)
    ELSE LET done == replicate_each(B, c, offsets,
                                    with_capacity(offsets[Len(offsets)]), 0, 0)
         IN IF done.outcome = "panic" THEN Panic(B)
            ELSE to_column(B, done.builder)

----------------------------------------------------------------------------
(* Arrow interop (mod.rs 44-62, 90-93)                                     *)

(* BooleanArray::from_data(ArrowType::Boolean, values, None)               *)
BooleanArray_from_data(data_type, values, validity) ==
    [data_type |-> data_type, values |-> values, validity |-> validity]

(* as_arrow_array on the bytes of the view, the bit offset left out.       *)
as_arrow_array_without_offset(c) ==
    BooleanArray_from_data("Boolean", [c.values EXCEPT !.offset = 0], "None")

as_arrow_array(c) == BooleanArray_from_data("Boolean", c.values, "None")

new(array) == [values |-> array.values]

(* downcast_ref::<BooleanArray>().unwrap()                                 *)
from_arrow_array(B, array) ==
    IF array.data_type = "Boolean"
    THEN Ret("ok", B, <<new(array)>>, FALSE, "-")
    ELSE Panic(B)

from_arrow_data(B, values) ==
    from_arrow_array(B, BooleanArray_from_data("Boolean", values, "None"))

----------------------------------------------------------------------------
(* from_owned_iterator (mod.rs 230-238)                                    *)

(* An iterator is the items it will yield and its size_hint: lower, and    *)
(* upper when bounded.                                                     *)
size_hint(it) == it.hint

(* from_trusted_len_iter_unchecked reads exactly size_hint().1.unwrap()    *)
(* items and sets the length to that number.  An iterator that ends before *)
(* reaches unreachable_unchecked(): the bits not yielded are whatever the  *)
(* build makes of it, `junk` here.                                         *)
from_trusted_len_iter_unchecked(it, junk) ==
    LET upper == size_hint(it).upper
        n == Len(it.items)
    IN [outcome |-> IF n < upper THEN "ub" ELSE "ok",
        bitmap |-> MutableBitmap_from_iter(
                      [i \in 1..upper |-> IF i <= n THEN it.items[i] ELSE junk])]

from_owned_iterator(B, it, junk) ==
    IF size_hint(it).bounded
    THEN LET t == from_trusted_len_iter_unchecked(it, junk)
             f == Bitmap_from(B, t.bitmap)
         IN Ret(t.outcome, f.bufs, <<[values |-> f.values]>>, FALSE, "trusted")
    ELSE LET f == Bitmap_from(B, MutableBitmap_from_iter(it.items))
         IN Ret("ok", f.bufs, <<[values |-> f.values]>>, FALSE, "general")

----------------------------------------------------------------------------
(* The logical content of a column.                                        *)

Values(B, c) == Bitmap_iter(B, c.values)

----------------------------------------------------------------------------
(* Inputs.                                                                 *)

Short == UNION {[1..n -> BOOLEAN] : n \in 0..MaxLen}

LongLen == ChunkBits + 8 + MaxLen

Long == {[i \in 1..LongLen |-> i % 2 = 0],
         [i \in 1..LongLen |-> i % 3 # 0],
         [i \in 1..LongLen |-> TRUE]}

InputData == Short \cup Long

(* The (offset, length) of the views taken of an input: every view of a   *)
(* short one; of a long one, those at bit offsets 0 and 1 of its first two *)
(* bytes that are a few rows or a word and a few rows long.                *)
Views(d) ==
    IF Len(d) <= MaxLen
    THEN {v \in (0..Len(d)) \X (0..Len(d)) : v[1] + v[2] <= Len(d)}
    ELSE {0, 1, 8, 9} \X ({MaxLen} \cup (ChunkBits..(ChunkBits + 2)))

(* debug_assert! and the overflow checks are on in a debug build and off   *)
(* in a release build.                                                     *)
Builds == {"debug", "release"}

(* A column built from data by from_slice, and a slice of it.              *)
Input(B, d, v) ==
    LET r == from_slice(B, d)
        s == slice(r.bufs, "release", r.out[1], v[1], v[2])
    IN [bufs |-> r.bufs, base |-> r.out[1], col |-> s.out[1]]

NearLen(n) == {k \in {n - 1, n, n + 1} : k >= 0}

(* Destination partitions of scatter, one past the last included: every   *)
(* assignment of the rows of a short column, a few of a long or            *)
(* mismatched one.                                                         *)
IndexSeqs(n, rows) ==
    IF n = rows /\ n <= MaxLen
    THEN [1..n -> 0..MaxParts]
    ELSE {[i \in 1..n |-> i % k] : k \in 1..(MaxParts + 1)}

RECURSIVE Sums(_, _)
Sums(runs, i) == IF i = 0 THEN 0 ELSE runs[i] + Sums(runs, i - 1)

(* Non-decreasing offsets of replicate, by their run lengths.              *)
OffsetSeqs(n, rows) ==
    IF n = rows /\ n <= MaxLen
    THEN {[i \in 1..n |-> Sums(runs, i)] : runs \in [1..n -> 0..MaxRun]}
    ELSE {[i \in 1..n |-> i * k] : k \in 0..MaxRun}

(* Arguments of slice and get: small ones, and the top of usize.           *)
UsizeArgs == (0..MaxLen) \cup {UsizeMax - 1, UsizeMax}

NoHint == [lower |-> 0, upper |-> 0, bounded |-> FALSE]

(* size_hint's contract: lower <= items yielded, and <= upper if bounded.  *)
Hints(n) ==
    {[lower |-> lo, upper |-> 0, bounded |-> FALSE] : lo \in 0..n}
    \cup {[lower |-> lo, upper |-> hi, bounded |-> TRUE] :
            lo \in 0..n, hi \in n..(MaxLen + 1)}

----------------------------------------------------------------------------
(* One call on a column.                                                   *)

NoCall ==
    [op |-> "none", self |-> 0, mask |-> 0, nums |-> <<>>, n |-> 0,
     items |-> <<>>, hint |-> NoHint, build |-> "-", view |-> <<0, 0>>,
     outcome |-> "ok", out |-> <<>>, value |-> FALSE, path |-> "-"]

(* The state after a call: the heap it left, the columns it returned (and  *)
(* the argument columns `extra` handed to it), and the record of it.       *)
Called(call, extra, r) ==
    /\ budget' = budget - 1
    /\ bufs' = r.bufs
    /\ cols' = cols \o extra \o r.out
    /\ last' = [call EXCEPT
                  !.view = last.view,
                  !.outcome = r.outcome,
                  !.out = [k \in 1..Len(r.out) |-> Len(cols) + Len(extra) + k],
                  !.value = r.value,
                  !.path = r.path]

(* The caller holds nothing yet, or a column built by from_slice and a     *)
(* slice of it, the receiver of the call it makes.                         *)
Init ==
    /\ budget = 1
    /\ \/ bufs = <<>> /\ cols = <<>> /\ last = NoCall
       \/ \E d \in InputData : \E v \in Views(d) :
            LET in == Input(<<>>, d, v)
            IN /\ bufs = in.bufs
               /\ cols = <<in.base, in.col>>
               /\ last = [NoCall EXCEPT !.view = v]

(* The receiver of the call: the input column.                             *)
Self == Len(cols)

Slice ==
    /\ budget > 0 /\ cols # <<>>
    /\ \E offset \in UsizeArgs, length \in UsizeArgs, build \in Builds :
        Called([NoCall EXCEPT !.op = "slice", !.self = Self,
                              !.nums = <<offset, length>>, !.build = build],
               <<>>, slice(bufs, build, cols[Self], offset, length))

Get ==
    /\ budget > 0 /\ cols # <<>>
    /\ \E index \in (0..MaxLen) \cup (len(cols[Self])..(len(cols[Self]) + 16)) :
        Called([NoCall EXCEPT !.op = "get", !.self = Self, !.nums = <<index>>],
               <<>>, get(bufs, cols[Self], index))

Filter ==
    /\ budget > 0 /\ cols # <<>>
    /\ \E d \in InputData : \E v \in Views(d) :
        /\ \/ v[2] = len(cols[Self])
           \/ v[2] \in NearLen(len(cols[Self])) /\ v[1] = 0
        /\ LET in == Input(bufs, d, v)
           IN Called([NoCall EXCEPT !.op = "filter", !.self = Self,
                                    !.mask = Len(cols) + 1],
                     <<in.col>>, filter(in.bufs, cols[Self], in.col))

Scatter ==
    /\ budget > 0 /\ cols # <<>>
    /\ \E n \in NearLen(len(cols[Self])), scattered_size \in 0..MaxParts :
        \E indices \in IndexSeqs(n, len(cols[Self])) :
          Called([NoCall EXCEPT !.op = "scatter", !.self = Self,
                                !.nums = indices, !.n = scattered_size],
                 <<>>, scatter(bufs, cols[Self], indices, scattered_size))

Replicate ==
    /\ budget > 0 /\ cols # <<>>
    /\ \E n \in NearLen(len(cols[Self])) : \E offsets \in OffsetSeqs(n, len(cols[Self])) :
      \E build \in Builds :
        Called([NoCall EXCEPT !.op = "replicate", !.self = Self,
                              !.nums = offsets, !.build = build],
               <<>>, replicate(bufs, build, cols[Self], offsets))

RoundTrip ==
    /\ budget > 0 /\ cols # <<>>
    /\ Called([NoCall EXCEPT !.op = "round_trip", !.self = Self],
              <<>>, from_arrow_array(bufs, as_arrow_array(cols[Self])))

(* A constructor call has no receiver.                                     *)
FromOwnedIterator ==
    /\ budget > 0 /\ cols = <<>>
    /\ \E items \in Short : \E hint \in Hints(Len(items)) : \E junk \in BOOLEAN :
        Called([NoCall EXCEPT !.op = "from_owned_iterator",
                              !.items = items, !.hint = hint],
               <<>>,
               from_owned_iterator(bufs, [items |-> items, hint |-> hint], junk))

Next ==
    \/ Slice
    \/ Get
    \/ Filter
    \/ Scatter
    \/ Replicate
    \/ RoundTrip
    \/ FromOwnedIterator

Spec == Init /\ [][Next]_vars

----------------------------------------------------------------------------
(* A sequence of calls on a column and on the columns derived from it,     *)
(* while at most MaxCols columns are alive.                                *)

SeqData == {[i \in 1..MaxLen |-> TRUE], [i \in 1..MaxLen |-> i % 2 = 1]}

InitSeq ==
    /\ budget = 0
    /\ last = NoCall
    /\ \E d \in SeqData :
         LET r == from_slice(<<>>, d)
         IN bufs = r.bufs /\ cols = r.out

SeqCalled(op, r) ==
    /\ r.outcome = "ok"
    /\ Len(cols) + Len(r.out) <= MaxCols
    /\ bufs' = r.bufs
    /\ cols' = cols \o r.out
    /\ last' = [NoCall EXCEPT !.op = op, !.path = r.path, !.value = r.value]
    /\ UNCHANGED budget

SeqArc == \E c \in 1..Len(cols) : SeqCalled("arc", arc(bufs, cols[c]))

SeqSlice ==
    \E c \in 1..Len(cols) : \E offset \in {0, 1} :
        /\ len(cols[c]) > 0
        /\ SeqCalled("slice", slice(bufs, "release", cols[c],
                                    offset, len(cols[c]) - 1))

SeqFilter ==
    \E c \in 1..Len(cols), m \in 1..Len(cols) :
        /\ len(cols[m]) = len(cols[c])
        /\ SeqCalled("filter", filter(bufs, cols[c], cols[m]))

SeqScatter ==
    \E c \in 1..Len(cols) :
        SeqCalled("scatter",
                  scatter(bufs, cols[c],
                          [i \in 1..len(cols[c]) |-> i % MaxParts], MaxParts))

SeqReplicate ==
    \E c \in 1..Len(cols) :
        SeqCalled("replicate",
                  replicate(bufs, "release", cols[c],
                            [i \in 1..len(cols[c]) |-> i + (i % 2)]))

SeqGet ==
    \E c \in 1..Len(cols) : \E index \in 0..(len(cols[c]) - 1) :
        SeqCalled("get", get(bufs, cols[c], index))

(* as_arrow_array hands out an array on the same Bitmap; the column the    *)
(* caller gets back from it shares the buffer.                             *)
SeqAsArrowArray ==
    \E c \in 1..Len(cols) :
        SeqCalled("as_arrow_array",
                  from_arrow_array(bufs, as_arrow_array(cols[c])))

NextSeq ==
    \/ SeqArc
    \/ SeqSlice
    \/ SeqFilter
    \/ SeqScatter
    \/ SeqReplicate
    \/ SeqGet
    \/ SeqAsArrowArray

SpecSeq == InitSeq /\ [][NextSeq]_vars

----------------------------------------------------------------------------
(* What the properties are stated with.                                    *)

(* The sub-sequence of vals at the positions where keep is true, in        *)
(* ascending order.                                                        *)
Select(vals, keep) ==
    LET idx == {i \in 1..Len(vals) : keep[i]}
    IN [k \in 1..Cardinality(idx) |->
          vals[CHOOSE i \in idx : Cardinality({j \in idx : j <= i}) = k]]

SetBits(vals) == Cardinality({i \in 1..Len(vals) : vals[i]})

NonDecreasing(offsets) ==
    \A i \in 1..(Len(offsets) - 1) : offsets[i] <= offsets[i + 1]

Receiver == cols[last.self]
Mask == cols[last.mask]
Out(k) == cols[last.out[k]]
Returned == last.outcome = "ok"

(* The bit offset of a column's view inside its buffer.                    *)
BitOffset(c) == c.values.offset

----------------------------------------------------------------------------
(* C1: c.filter(m), for m as long as c, is the sub-sequence of c's values  *)
(* at the positions where m is true, in ascending order, and as long as m  *)
(* has set bits; c and m may be slices at any bit offset.                  *)
C1_FilterIsSubsequence ==
    (last.op = "filter" /\ len(Mask) = len(Receiver)) =>
        /\ Returned
        /\ len(Out(1)) = SetBits(Values(bufs, Mask))
        /\ Values(bufs, Out(1))
             = Select(Values(bufs, Receiver), Values(bufs, Mask))

(* The same for a column and a mask whose views start on a byte boundary:  *)
(* the kernel is right there.                                              *)
FilterOfByteAlignedViews ==
    (/\ last.op = "filter" /\ len(Mask) = len(Receiver)
     /\ BitOffset(Receiver) % 8 = 0 /\ BitOffset(Mask) % 8 = 0) =>
        /\ Returned
        /\ Values(bufs, Out(1))
             = Select(Values(bufs, Receiver), Values(bufs, Mask))

(* C2: scatter returns scattered_size columns, the p-th holding c's values *)
(* at the rows i with indices[i] = p, in ascending i.                      *)
C2_Pre ==
    /\ last.op = "scatter"
    /\ Len(last.nums) = len(Receiver)
    /\ \A i \in 1..Len(last.nums) : last.nums[i] < last.n

C2_ScatterPartitions ==
    C2_Pre =>
        /\ Returned
        /\ Len(last.out) = last.n
        /\ \A p \in 0..(last.n - 1) :
             Values(bufs, Out(p + 1))
               = Select(Values(bufs, Receiver),
                        [i \in 1..Len(last.nums) |-> last.nums[i] = p])

(* A slice at a bit offset that is no multiple of 8 scattered into two     *)
(* partitions that both get rows.                                          *)
C2_Witness ==
    /\ C2_Pre /\ Returned
    /\ BitOffset(Receiver) % 8 # 0
    /\ last.n = MaxParts
    /\ \A p \in 1..MaxParts : len(Out(p)) > 0

(* C3: replicate has length offsets.last() (0 for no offsets) and row i    *)
(* fills the positions offsets[i-1] .. offsets[i]-1 with c.get(i).         *)
C3_Pre ==
    /\ last.op = "replicate"
    /\ Len(last.nums) = len(Receiver)
    /\ NonDecreasing(last.nums)

C3_ReplicateRuns ==
    C3_Pre =>
        /\ Returned
        /\ len(Out(1)) = IF last.nums = <<>> THEN 0
                         ELSE last.nums[Len(last.nums)]
        /\ \A i \in 1..Len(last.nums) :
             \A pos \in (IF i = 1 THEN 0 ELSE last.nums[i - 1])
                        ..(last.nums[i] - 1) :
                 Values(bufs, Out(1))[pos + 1]
                   = get(bufs, Receiver, i - 1).value

(* A slice at an odd bit offset replicated with an empty run between two   *)
(* runs.                                                                   *)
C3_Witness ==
    /\ C3_Pre /\ Returned
    /\ BitOffset(Receiver) % 8 # 0
    /\ \E i \in 2..(Len(last.nums) - 1) :
         /\ last.nums[i] = last.nums[i - 1]
         /\ last.nums[i - 1] > 0
         /\ last.nums[i + 1] > last.nums[i]

C5_LengthMismatchFails ==
    (\/ last.op = "filter" /\ len(Mask) # len(Receiver)
     \/ last.op \in {"scatter", "replicate"}
          /\ Len(last.nums) # len(Receiver)) =>
        last.outcome = "panic"

(* C6: for offset + length <= c.len(), c.slice(offset, length) has length  *)
(* `length` and row i of it is row offset + i of c; a slice of a slice is  *)
(* the slice of the base at the sum of the offsets.                        *)
C6_Pre ==
    /\ last.op = "slice"
    /\ last.nums[1] + last.nums[2] <= len(Receiver)

C6_SliceIsView ==
    C6_Pre =>
        /\ Returned
        /\ len(Out(1)) = last.nums[2]
        /\ \A i \in 0..(last.nums[2] - 1) :
             /\ get(bufs, Out(1), i).outcome = "ok"
             /\ get(bufs, Out(1), i).value
                  = get(bufs, Receiver, last.nums[1] + i).value
        /\ Values(bufs, Out(1))
             = Values(bufs, slice(bufs, last.build, cols[1],
                                  last.view[1] + last.nums[1],
                                  last.nums[2]).out[1])

(* A slice of two rows or more of a slice that starts inside a byte.       *)
C6_Witness ==
    /\ C6_Pre /\ Returned
    /\ last.view[1] % 8 # 0
    /\ last.nums[1] > 0
    /\ last.nums[2] > 1

(* C7: slice fails whenever offset + length, as a number, exceeds c.len(). *)
C7_SliceBeyondLenFails ==
    (last.op = "slice" /\ last.nums[1] + last.nums[2] > len(Receiver)) =>
        last.outcome = "panic"

(* C8: a call leaves the length and the values of every column produced    *)
(* before it as they were.                                                 *)
C8_ColumnsAreImmutable ==
    [][\A i \in 1..Len(cols) :
         /\ i <= Len(cols')
         /\ len(cols'[i]) = len(cols[i])
         /\ Values(bufs', cols'[i]) = Values(bufs, cols[i])]_vars

(* The filter fast path has returned a column on the buffer of an older    *)
(* one, and a kernel has made a column in a buffer of its own.             *)
C8_Witness ==
    /\ last.op = "filter" /\ last.path = "fast"
    /\ cols[Len(cols)].values.bytes < Len(bufs)
    /\ \E i \in 1..Len(cols) : cols[i].values.offset > 0
    /\ Len(bufs) > 1

C10_FromOwnedIteratorHoldsItems ==
    last.op = "from_owned_iterator" =>
        /\ last.path = "trusted" =>
             /\ last.hint.lower = Len(last.items)
             /\ last.hint.upper = Len(last.items)
        /\ Returned
        /\ len(Out(1)) = Len(last.items)
        /\ Values(bufs, Out(1)) = last.items

====
